---- MODULE Spec2Model ----
(***************************************************************************)
(* SimpleCache (an expiring key-value cache over window.localStorage) and  *)
(* AngularOneDataFetcher (get-from-cache-or-fetch-from-origin).            *)
(*                                                                         *)
(* JavaScript values are records tagged by type; an object carries its own *)
(* properties as a function from property names to values.  The text kept  *)
(* in localStorage is the JSON document JSON.stringify produces, or a text *)
(* that is no JSON at all; a key never written reads as undefined.         *)
(***************************************************************************)
EXTENDS Integers, Sequences, FiniteSets, TLC

VARIABLES
    now,                  \* Date.now(), in milliseconds
    storage,              \* window.localStorage: key -> what is kept under it
    defaultCacheMinutes,  \* SimpleCache.defaultCacheMinutes
    fetcher,              \* the AngularOneDataFetcher's constructor arguments
    _cacheDuration,       \* AngularOneDataFetcher._cacheDuration
    calls,                \* the get()/refresh() calls made, each with its promise
    last,                 \* history: the last operation a caller made on the cache,
                          \* or the last override a caller set on the fetcher
    written,              \* history: key -> the last set/forever/forget a caller made
    nWrites,              \* history: set/forever/forget calls a caller made so far
    nTicks                \* history: clock steps so far

vars == <<now, storage, defaultCacheMinutes, fetcher, _cacheDuration, calls,
          last, written, nWrites, nTicks>>

(***************************************************************************)
(* Bounds of the model.                                                    *)
(***************************************************************************)
StartTime == 1000
MaxWrites == 2
MaxTicks == 1
MaxCalls == 1
MaxOverlap == 2
LargeJump == 100000000

(***************************************************************************)
(* JavaScript values.                                                      *)
(***************************************************************************)
JSUndefined == [t |-> "undefined"]
JSNull == [t |-> "null"]
Num(n) == [t |-> "number", n |-> n]
Str(s) == [t |-> "string", s |-> s]
Arr(items) == [t |-> "array", items |-> items]
Obj(props) == [t |-> "object", o |-> props]
Bool(b) == [t |-> "boolean", b |-> b]
\* the number n + tenths / 10, as 1.5
Decimal(n, tenths) == [t |-> "number", n |-> n, tenths |-> tenths]
NoProps == [p \in {} |-> JSNull]

\* v.hasOwnProperty(name)
HasOwnProperty(v, name) == v.t = "object" /\ name \in DOMAIN v.o

\* v[name]: a property that is not there reads as undefined
Prop(v, name) == IF HasOwnProperty(v, name) THEN v.o[name] ELSE JSUndefined

\* ToBoolean(v), as in `if (v)` and `!v`
Truthy(v) ==
    CASE v.t = "undefined" -> FALSE
      [] v.t = "null" -> FALSE
      [] v.t = "number" -> v.n # 0
      [] v.t = "string" -> v.s # ""
      [] v.t = "boolean" -> v.b
      [] OTHER -> TRUE

\* ToNumber(v) is a number (not NaN) for these values only
IsNumeric(v) == v.t \in {"number", "null", "boolean"} \/ (v.t = "string" /\ v.s = "")
ToNumber(v) ==
    CASE v.t = "number" -> v.n
      [] v.t = "boolean" /\ v.b -> 1
      [] OTHER -> 0

\* a <= n for a JavaScript value a and a number n: false when a converts to NaN
LessOrEqual(a, n) == IsNumeric(a) /\ ToNumber(a) <= n

(***************************************************************************)
(* JSON.  JSON.stringify leaves out the properties of an object whose      *)
(* value is undefined and writes null for an undefined array element;      *)
(* JSONValue(v) is the value its output parses back to.                    *)
(***************************************************************************)
RECURSIVE JSONValue(_)
JSONValue(v) ==
    CASE v.t = "object" ->
           Obj([p \in {q \in DOMAIN v.o : v.o[q].t # "undefined"} |-> JSONValue(v.o[p])])
      [] v.t = "array" ->
           Arr([i \in DOMAIN v.items |->
                  IF v.items[i].t = "undefined" THEN JSNull ELSE JSONValue(v.items[i])])
      [] OTHER -> v

\* What window.localStorage[key] holds: nothing (reads as undefined), a text
\* that is a JSON document, or a text that is not JSON.
Missing == [kind |-> "missing", v |-> JSUndefined]
Garbage == [kind |-> "garbage", v |-> JSUndefined]
Json(v) == [kind |-> "json", v |-> v]

\* JSON.stringify(v) assigned to localStorage[key]; stringify of undefined is
\* undefined, which localStorage keeps as the text "undefined"
JSONStringify(v) == IF v.t = "undefined" THEN Garbage ELSE Json(JSONValue(v))

\* String(v) for the value null, which is the JSON document null
StringOfNull == Json(JSNull)

\* JSON.parse(window.localStorage[key]): undefined converts to the text
\* "undefined", which is no JSON document, and the parse throws SyntaxError
JSONParse(raw) ==
    IF raw.kind = "json" THEN [threw |-> FALSE, value |-> raw.v]
                         ELSE [threw |-> TRUE, value |-> JSUndefined]

(***************************************************************************)
(* SimpleCache                                                             *)
(***************************************************************************)
MsPerMinute == 60000
DefaultFactor == 24

\* parseInt(v, 10) of a number that is not negative: the digits before its
\* decimal point
ParseInt(v) == Num(v.n)

\* _isExpired with < for <=
_isExpired_strict(dataFromCache, time) ==
    IF ~Truthy(dataFromCache) THEN TRUE
    ELSE HasOwnProperty(dataFromCache, "expires")
         /\ IsNumeric(Prop(dataFromCache, "expires"))
         /\ ToNumber(Prop(dataFromCache, "expires")) < time

_isExpired(dataFromCache, time) ==
    IF ~Truthy(dataFromCache) THEN TRUE
    ELSE HasOwnProperty(dataFromCache, "expires")
         /\ LessOrEqual(Prop(dataFromCache, "expires"), time)

\* _applyExpirationDate that returns any value with an `expires` property of
\* its own as it is
_applyExpirationDate_hasOwn(valueToCache, cacheMinutes, time) ==
    IF HasOwnProperty(valueToCache, "expires")
    THEN valueToCache
    ELSE Obj([expires |-> Num(time + MsPerMinute * ToNumber(cacheMinutes)),
              value |-> valueToCache])

\* _applyExpirationDate that forgets to add the minutes
_applyExpirationDate_now(valueToCache, cacheMinutes, time) ==
    IF Truthy(valueToCache) /\ Truthy(Prop(valueToCache, "expires"))
    THEN valueToCache
    ELSE Obj([expires |-> Num(time), value |-> valueToCache])

_applyExpirationDate(valueToCache, cacheMinutes, time) ==
    IF Truthy(valueToCache) /\ Truthy(Prop(valueToCache, "expires"))
    THEN valueToCache
    ELSE Obj([expires |-> Num(time + MsPerMinute * ToNumber(cacheMinutes)),
              value |-> valueToCache])

\* get(key) on the store st at the given time: what it returns, or that it threw
SimpleCache_get(st, key, time) ==
    LET parsed == JSONParse(st[key])
        data == IF ~Truthy(parsed.value) \/ _isExpired(parsed.value, time)
                THEN JSNull ELSE parsed.value
    IN IF parsed.threw THEN [threw |-> TRUE, result |-> JSUndefined]
       ELSE [threw |-> FALSE,
             result |-> IF Truthy(data) THEN Prop(data, "value") ELSE data]

\* set(key, value, cacheMinutes = null): the store afterwards
SimpleCache_set(st, key, value, cacheMinutes, dflt, time) ==
    LET minutes == IF cacheMinutes.t = "null"
                   THEN Num(DefaultFactor * ToNumber(ParseInt(dflt)))
                   ELSE cacheMinutes
    IN [st EXCEPT ![key] = JSONStringify(_applyExpirationDate(value, minutes, time))]

\* forever that stamps the entry with an expiration, as set does
SimpleCache_forever_stamped(st, key, value) ==
    [st EXCEPT ![key] = JSONStringify(Obj([expires |-> Num(MsPerMinute), value |-> value]))]

\* forever(key, value): the store afterwards
SimpleCache_forever(st, key, value) ==
    [st EXCEPT ![key] = JSONStringify(Obj([value |-> value]))]

\* forget that leaves the entry in place
SimpleCache_forget_noop(st, key) == st

\* forget(key): the store afterwards
SimpleCache_forget(st, key) == [st EXCEPT ![key] = StringOfNull]

(***************************************************************************)
(* AngularOneDataFetcher: building the cache key                           *)
(***************************************************************************)
\* The words lodash's snakeCase finds in a parameter, lower-cased; it joins
\* them with "_".  "42" is the parameter 42.
SnakeWords(param) ==
    CASE param = "42" -> <<"42">>
      [] param = "a" -> <<"a">>
      [] param = "b" -> <<"b">>
      [] param = "A" -> <<"a">>
      [] param = "a_b" -> <<"a", "b">>
      [] param = "a b" -> <<"a", "b">>
      [] OTHER -> <<>>

RECURSIVE JoinWords(_)
JoinWords(ws) ==
    IF ws = <<>> THEN ""
    ELSE IF Len(ws) = 1 THEN ws[1]
    ELSE ws[1] \o "_" \o JoinWords(Tail(ws))

_snakeCase(param) == JoinWords(SnakeWords(param))

\* this._key as the text `result += ...` makes of it
KeyText(key) == IF key.t = "null" THEN "null" ELSE key.s

RECURSIVE _buildKeyFrom(_, _)
_buildKeyFrom(result, params) ==
    IF params = <<>> THEN result
    ELSE _buildKeyFrom(result \o "_" \o _snakeCase(Head(params)), Tail(params))

_buildKey(key, params) == _buildKeyFrom(KeyText(key), params)

(***************************************************************************)
(* The inputs the model draws from.                                        *)
(***************************************************************************)
BaseKeys == {Str("users"), JSNull}
ParamLists == {<<"42">>, <<"a", "b">>, <<"a_b">>}
Keys == {_buildKey(key, params) : key \in BaseKeys, params \in ParamLists}

EmptyObject == Obj(NoProps)
EmptyArray == Arr(<<>>)
User42 == Obj([id |-> Num(42)])
User7 == Obj([id |-> Num(7)])
\* values shaped like a cache entry: they have an `expires` property
Wrapped(expires) == Obj([expires |-> expires, value |-> Str("w")])

\* the values a caller hands to set() and forever()
StoreValues ==
    {JSUndefined, JSNull, User42, Wrapped(Num(StartTime + LargeJump)), Wrapped(Num(0))}

\* the cacheMinutes a caller hands to set(): null is the default parameter
StoreMinutes == {JSNull, Num(1)}

NoOp == [op |-> "none", key |-> "", value |-> JSUndefined, minutes |-> JSNull,
         at |-> 0, had |-> "missing", threw |-> FALSE, result |-> JSUndefined]

\* the record of an operation on the cache made now
Op(op, key, value, minutes, got) ==
    [op |-> op, key |-> key, value |-> value, minutes |-> minutes,
     at |-> now, had |-> storage[key].kind, threw |-> got.threw, result |-> got.result]

Done == [threw |-> FALSE, result |-> JSUndefined]

(***************************************************************************)
(* A caller of the cache: set, forever, forget and get on any key.         *)
(***************************************************************************)
Set(key, value, cacheMinutes) ==
    /\ nWrites < MaxWrites
    /\ storage' = SimpleCache_set(storage, key, value, cacheMinutes,
                                  defaultCacheMinutes, now)
    /\ last' = Op("set", key, value, cacheMinutes, Done)
    /\ written' = [written EXCEPT ![key] = last']
    /\ nWrites' = nWrites + 1
    /\ UNCHANGED <<now, defaultCacheMinutes, fetcher, _cacheDuration, calls, nTicks>>

Forever(key, value) ==
    /\ nWrites < MaxWrites
    /\ storage' = SimpleCache_forever(storage, key, value)
    /\ last' = Op("forever", key, value, JSNull, Done)
    /\ written' = [written EXCEPT ![key] = last']
    /\ nWrites' = nWrites + 1
    /\ UNCHANGED <<now, defaultCacheMinutes, fetcher, _cacheDuration, calls, nTicks>>

Forget(key) ==
    /\ nWrites < MaxWrites
    /\ storage' = SimpleCache_forget(storage, key)
    /\ last' = Op("forget", key, JSUndefined, JSNull, Done)
    /\ written' = [written EXCEPT ![key] = last']
    /\ nWrites' = nWrites + 1
    /\ UNCHANGED <<now, defaultCacheMinutes, fetcher, _cacheDuration, calls, nTicks>>

Get(key) ==
    /\ last' = Op("get", key, JSUndefined, JSNull, SimpleCache_get(storage, key, now))
    /\ UNCHANGED <<now, storage, defaultCacheMinutes, fetcher, _cacheDuration, calls,
                   written, nWrites, nTicks>>

(***************************************************************************)
(* The clock.  It moves to the millisecond before the expiration of an     *)
(* entry in the store, onto that expiration, or by a large jump.           *)
(***************************************************************************)
Expirations ==
    {ToNumber(Prop(storage[k].v, "expires")) :
        k \in {q \in Keys : /\ storage[q].kind = "json"
                           /\ HasOwnProperty(storage[q].v, "expires")
                           /\ Prop(storage[q].v, "expires").t = "number"}}

TickTargets ==
    {t \in {now + LargeJump} \cup {e + d : e \in Expirations, d \in {-1, 0}} :
        t > now}

Tick(t) ==
    /\ nTicks < MaxTicks
    /\ now' = t
    /\ nTicks' = nTicks + 1
    /\ UNCHANGED <<storage, defaultCacheMinutes, fetcher, _cacheDuration, calls,
                   last, written, nWrites>>

\* an entry as set() leaves it
Entry(expires, value) == Json(Obj([expires |-> Num(expires), value |-> value]))

\* what localStorage holds under every key when a caller of the cache starts:
\* nothing, or a text that is no JSON
InitialEntries == {Missing, Garbage}

InitStore(entries) ==
    /\ now = StartTime
    /\ \E raw \in entries : storage = [k \in Keys |-> raw]
    /\ defaultCacheMinutes \in {Num(1)}
    /\ last = NoOp
    /\ written = [k \in Keys |-> NoOp]
    /\ nWrites = 0
    /\ nTicks = 0

InitCacheOnly ==
    /\ InitStore(InitialEntries)
    /\ fetcher = [key |-> Str("users"), hasCache |-> TRUE, hasLoading |-> TRUE]
    /\ _cacheDuration = JSNull
    /\ calls = <<>>

\* the keys a direct caller uses
CallerKeys == {_buildKey(Str("users"), params) : params \in ParamLists}

NextCacheOnly ==
    \/ \E k \in CallerKeys, v \in StoreValues, m \in StoreMinutes : Set(k, v, m)
    \/ \E k \in CallerKeys, v \in StoreValues : Forever(k, v)
    \/ \E k \in CallerKeys : Forget(k)
    \/ \E k \in CallerKeys : Get(k)
    \/ \E t \in TickTargets : Tick(t)

SpecCache == InitCacheOnly /\ [][NextCacheOnly]_vars

(***************************************************************************)
(* AngularOneDataFetcher                                                   *)
(***************************************************************************)
\* an isEmpty that looks at arrays and strings only
_isEmpty_arrayLike(value) ==
    CASE value.t = "array" -> Len(value.items) = 0
      [] value.t = "string" -> value.s = ""
      [] value.t = "object" -> FALSE
      [] OTHER -> TRUE

\* lodash's isEmpty: null, undefined, numbers and booleans have no elements
_isEmpty(value) ==
    CASE value.t = "object" -> DOMAIN value.o = {}
      [] value.t = "array" -> Len(value.items) = 0
      [] value.t = "string" -> value.s = ""
      [] OTHER -> TRUE

\* what the fetching strategy resolves with, and what it rejects with
FetchData == {User7, EmptyArray}
FetchErrors == {Str("network error")}

\* the hours a caller hands to cacheDuration()
DurationHours == {Num(1)}

\* _getFromCache that never asks the cache
_getFromCache_never(f, st, params, time) == [threw |-> FALSE, result |-> Bool(FALSE)]

\* _getFromCache(...params): false without a cache service, else get(key)
_getFromCache(f, st, params, time) ==
    IF ~f.hasCache THEN [threw |-> FALSE, result |-> Bool(FALSE)]
    ELSE SimpleCache_get(st, _buildKey(f.key, params), time)

\* _saveToCache that always uses the default expiration of the cache
_saveToCache_default(f, duration, st, data, params, dflt, time) ==
    IF ~f.hasCache THEN st
    ELSE SimpleCache_set(st, _buildKey(f.key, params), data, JSNull, dflt, time)

\* _saveToCache(data, ...params): the store afterwards
_saveToCache(f, duration, st, data, params, dflt, time) ==
    IF ~f.hasCache THEN st
    ELSE IF duration = Bool(FALSE)
         THEN SimpleCache_forever(st, _buildKey(f.key, params), data)
    ELSE IF duration = JSNull
         THEN SimpleCache_set(st, _buildKey(f.key, params), data, JSNull, dflt, time)
    ELSE SimpleCache_set(st, _buildKey(f.key, params), data, duration, dflt, time)

\* an entry with a value whose expiration, if it has one, is after the given time
Unexpired(raw, time) ==
    /\ raw.kind = "json"
    /\ raw.v.t = "object"
    /\ HasOwnProperty(raw.v, "value")
    /\ HasOwnProperty(raw.v, "expires") =>
         (Prop(raw.v, "expires").t = "number" /\ Prop(raw.v, "expires").n > time)

\* A call of get() or refresh() as it starts.  History: entry is what
\* localStorage held under the call's key at that moment and live whether its
\* expiration was still ahead, origin how the fetching strategy settled,
\* wrote what the call stored under its key.
NewCall(kind, params) ==
    [kind |-> kind, params |-> params, pc |-> "start",
     entry |-> storage[_buildKey(fetcher.key, params)],
     live |-> Unexpired(storage[_buildKey(fetcher.key, params)], now),
     origin |-> [state |-> "pending", value |-> JSUndefined],
     cached |-> JSUndefined, fetched |-> 0, shows |-> 0, hides |-> 0, alerts |-> 0,
     data |-> JSUndefined, result |-> JSUndefined, wrote |-> Missing]

\* _fetchFromOrigin(...params) up to the call of the fetching strategy
_fetchFromOrigin(f, call) ==
    [call EXCEPT !.shows = @ + (IF f.hasLoading THEN 1 ELSE 0),
                 !.fetched = @ + 1,
                 !.pc = "fetching"]

\* _fetchFromOrigin's callback for a strategy that resolved with data
OriginResolved(f, call, data) ==
    [call EXCEPT !.hides = @ + (IF f.hasLoading THEN 1 ELSE 0),
                 !.data = data,
                 !.pc = "originResolved"]

\* the rejection callback without the alert
OriginRejected_silent(f, call, result) ==
    [call EXCEPT !.hides = @ + (IF f.hasLoading THEN 1 ELSE 0),
                 !.data = result,
                 !.pc = "originRejected"]

\* the rejection callback that leaves the loader showing
OriginRejected_stuck(f, call, result) ==
    [call EXCEPT !.alerts = @ + 1,
                 !.data = result,
                 !.pc = "originRejected"]

\* _fetchFromOrigin's callback for a strategy that rejected with result
OriginRejected(f, call, result) ==
    [call EXCEPT !.hides = @ + (IF f.hasLoading THEN 1 ELSE 0),
                 !.alerts = @ + 1,
                 !.data = result,
                 !.pc = "originRejected"]

\* the executor of get(): serve from the cache, or go to the origin
GetExecutor(f, call, got) ==
    IF got.threw THEN [call EXCEPT !.pc = "threw"]
    ELSE IF Truthy(got.result) /\ ~_isEmpty(got.result)
         THEN [call EXCEPT !.cached = got.result, !.pc = "resolved",
                           !.result = got.result]
    ELSE _fetchFromOrigin(f, [call EXCEPT !.cached = got.result])

\* a get that stores what it found in the cache again, renewing its expiration
Fetcher_get_touch(params) ==
    LET got == _getFromCache(fetcher, storage, params, now)
        call == GetExecutor(fetcher, NewCall("get", params), got)
    IN /\ calls' = Append(calls, call)
       /\ storage' = IF call.pc = "resolved"
                     THEN _saveToCache(fetcher, _cacheDuration, storage, got.result,
                                       params, defaultCacheMinutes, now)
                     ELSE storage
       /\ UNCHANGED <<now, defaultCacheMinutes, fetcher, _cacheDuration,
                      last, written, nWrites, nTicks>>

\* get(...params)
Fetcher_get(params) ==
    LET got == _getFromCache(fetcher, storage, params, now)
    IN /\ calls' = Append(calls, GetExecutor(fetcher, NewCall("get", params), got))
       /\ UNCHANGED <<now, storage, defaultCacheMinutes, fetcher, _cacheDuration,
                      last, written, nWrites, nTicks>>

\* a refresh that asks the cache first, as get() does
Fetcher_refresh_cached(params) ==
    LET got == _getFromCache(fetcher, storage, params, now)
    IN /\ calls' = Append(calls, GetExecutor(fetcher, NewCall("refresh", params), got))
       /\ UNCHANGED <<now, storage, defaultCacheMinutes, fetcher, _cacheDuration,
                      last, written, nWrites, nTicks>>

\* refresh(...params)
Fetcher_refresh(params) ==
    /\ calls' = Append(calls, _fetchFromOrigin(fetcher, NewCall("refresh", params)))
    /\ UNCHANGED <<now, storage, defaultCacheMinutes, fetcher, _cacheDuration,
                   last, written, nWrites, nTicks>>

\* the fetching strategy of call i resolves
StrategyResolves(i, data) ==
    /\ calls[i].pc = "fetching"
    /\ calls' = [calls EXCEPT ![i] =
                    OriginResolved(fetcher,
                                   [@ EXCEPT !.origin = [state |-> "resolved", value |-> data]],
                                   data)]
    /\ UNCHANGED <<now, storage, defaultCacheMinutes, fetcher, _cacheDuration,
                   last, written, nWrites, nTicks>>

\* the fetching strategy of call i rejects
StrategyRejects(i, result) ==
    /\ calls[i].pc = "fetching"
    /\ calls' = [calls EXCEPT ![i] =
                    OriginRejected(fetcher,
                                   [@ EXCEPT !.origin = [state |-> "rejected", value |-> result]],
                                   result)]
    /\ UNCHANGED <<now, storage, defaultCacheMinutes, fetcher, _cacheDuration,
                   last, written, nWrites, nTicks>>

\* the promise of call i once the data is saved: resolved with the data
Saved(call, st) ==
    [call EXCEPT !.pc = "resolved", !.result = call.data,
                 !.wrote = st[_buildKey(fetcher.key, call.params)]]

\* the promise of call i once the origin failed: rejected with its reason
Failed(call) == [call EXCEPT !.pc = "rejected", !.result = call.data]

\* the callback get() and refresh() chain on _fetchFromOrigin, on success:
\* _saveToCache(data, ...params), then the data
SaveAndResolve(i) ==
    LET call == calls[i]
    IN /\ call.pc = "originResolved"
       /\ storage' = _saveToCache(fetcher, _cacheDuration, storage, call.data,
                                  call.params, defaultCacheMinutes, now)
       /\ calls' = [calls EXCEPT ![i] = IF fetcher.hasCache THEN Saved(call, storage')
                                        ELSE [Saved(call, storage') EXCEPT !.wrote = Missing]]
       /\ UNCHANGED <<now, defaultCacheMinutes, fetcher, _cacheDuration,
                      last, written, nWrites, nTicks>>

\* a failure callback that forgets the entry of the call
Reject_forget(i) ==
    /\ calls[i].pc = "originRejected"
    /\ calls' = [calls EXCEPT ![i] = Failed(@)]
    /\ storage' = IF fetcher.hasCache
                  THEN SimpleCache_forget(storage, _buildKey(fetcher.key, calls[i].params))
                  ELSE storage
    /\ UNCHANGED <<now, defaultCacheMinutes, fetcher, _cacheDuration,
                   last, written, nWrites, nTicks>>

\* on failure: get() rejects with the reason, refresh() passes the rejection on
Reject(i) ==
    /\ calls[i].pc = "originRejected"
    /\ calls' = [calls EXCEPT ![i] = Failed(@)]
    /\ UNCHANGED <<now, storage, defaultCacheMinutes, fetcher, _cacheDuration,
                   last, written, nWrites, nTicks>>

\* cacheDuration(hours)
cacheDuration(hours) ==
    /\ _cacheDuration' = ParseInt(hours)
    /\ last' = [NoOp EXCEPT !.op = "cacheDuration", !.minutes = hours]
    /\ UNCHANGED <<now, storage, defaultCacheMinutes, fetcher, calls,
                   written, nWrites, nTicks>>

\* neverExpire()
neverExpire ==
    /\ _cacheDuration' = Bool(FALSE)
    /\ last' = [NoOp EXCEPT !.op = "neverExpire"]
    /\ UNCHANGED <<now, storage, defaultCacheMinutes, fetcher, calls,
                   written, nWrites, nTicks>>

\* the constructor arguments: a key, a CacheService and an $ionicLoading
CachingFetcher == [key |-> Str("users"), hasCache |-> TRUE, hasLoading |-> TRUE]

\* what localStorage holds under every key when the fetcher is made: nothing,
\* the "null" forget() leaves, or a live entry of an earlier session, holding
\* a user or holding {}
FetcherEntries ==
    {Missing, StringOfNull,
     Entry(StartTime + MsPerMinute, User42),
     Entry(StartTime + MsPerMinute, EmptyObject)}

\* new AngularOneDataFetcher(fetchingStrategy, $q, key, CacheService, $ionicLoading)
Init ==
    /\ InitStore(FetcherEntries)
    /\ fetcher = CachingFetcher
    /\ _cacheDuration = JSNull
    /\ calls = <<>>

\* the steps of the calls under way
Settle(origin) ==
    \/ \E i \in DOMAIN calls, data \in origin : StrategyResolves(i, data)
    \/ \E i \in DOMAIN calls, result \in FetchErrors : StrategyRejects(i, result)
    \/ \E i \in DOMAIN calls : SaveAndResolve(i)
    \/ \E i \in DOMAIN calls : Reject(i)

Next ==
    \/ \E params \in ParamLists : Len(calls) < MaxCalls /\ Fetcher_get(params)
    \/ \E params \in ParamLists : Len(calls) < MaxCalls /\ Fetcher_refresh(params)
    \/ Settle(FetchData)
    \/ \E hours \in DurationHours : cacheDuration(hours)
    \/ neverExpire
    \/ \E t \in TickTargets : Tick(t)

Spec == Init /\ [][Next]_vars

(***************************************************************************)
(* Calls that overlap: up to MaxOverlap calls of one fetcher, each started *)
(* before or after the others settle, on a store where a get() is a miss:  *)
(* nothing under the key, a forgotten entry, or an expired one.            *)
(***************************************************************************)
OverlapEntries == {Missing, StringOfNull, Entry(StartTime, User42)}
OverlapData == {User42, User7}
OverlapParams == {<<"a", "b">>, <<"a_b">>, <<"42">>}

InitOverlap ==
    /\ InitStore(OverlapEntries)
    /\ fetcher = CachingFetcher
    /\ _cacheDuration = JSNull
    /\ calls = <<>>

NextOverlap ==
    \/ \E params \in OverlapParams : Len(calls) < MaxOverlap /\ Fetcher_get(params)
    \/ \E params \in OverlapParams : Len(calls) < MaxOverlap /\ Fetcher_refresh(params)
    \/ Settle(OverlapData)

SpecOverlap == InitOverlap /\ [][NextOverlap]_vars

(***************************************************************************)
(* The overrides: one fetcher on a store holding a forgotten entry, whose  *)
(* caller sets whole and fractional durations between its calls.           *)
(***************************************************************************)
OverrideEntries == {StringOfNull}
OverrideParams == {<<"42">>}
OverrideHours == {Num(2), Decimal(1, 5)}

InitOverride ==
    /\ InitStore(OverrideEntries)
    /\ fetcher = CachingFetcher
    /\ _cacheDuration = JSNull
    /\ calls = <<>>

NextOverride ==
    \/ \E params \in OverrideParams : Len(calls) < MaxCalls /\ Fetcher_get(params)
    \/ \E params \in OverrideParams : Len(calls) < MaxCalls /\ Fetcher_refresh(params)
    \/ Settle(FetchData)
    \/ \E hours \in OverrideHours : cacheDuration(hours)
    \/ neverExpire
    \/ \E t \in TickTargets : Tick(t)

SpecOverride == InitOverride /\ [][NextOverride]_vars

(***************************************************************************)
(* The constructor's optional arguments, and a localStorage that is full:  *)
(* a fetcher made with or without a key and a CacheService, whose writes   *)
(* to localStorage may throw.                                              *)
(***************************************************************************)
\* new AngularOneDataFetcher(strategy, $q, 'users', null, $ionicLoading)
NoStoreFetcher == [key |-> Str("users"), hasCache |-> FALSE, hasLoading |-> TRUE]
\* new AngularOneDataFetcher(strategy, $q, null, CacheService, $ionicLoading)
NoKeyFetcher == [key |-> JSNull, hasCache |-> TRUE, hasLoading |-> TRUE]
FetcherSetups == {CachingFetcher, NoStoreFetcher, NoKeyFetcher}

SetupEntries == {Missing, StringOfNull, Entry(StartTime + MsPerMinute, User42)}

\* what an assignment to window.localStorage[key] throws when the storage is
\* full or not available
QuotaExceeded == Str("QuotaExceededError")

\* The success callback when _saveToCache throws.  In get() the callback ends
\* before resolve(data) and the promise get() returned stays pending; the
\* promise refresh() returned is the one then() made, which is rejected with
\* what the callback threw.
SaveThrew(call) ==
    IF call.kind = "get" THEN [call EXCEPT !.pc = "pending"]
    ELSE [call EXCEPT !.pc = "rejected", !.result = QuotaExceeded]

\* the success callback of call i, the write to localStorage throwing
SaveThrows(i) ==
    /\ calls[i].pc = "originResolved"
    /\ fetcher.hasCache
    /\ calls' = [calls EXCEPT ![i] = SaveThrew(@)]
    /\ UNCHANGED <<now, storage, defaultCacheMinutes, fetcher, _cacheDuration,
                   last, written, nWrites, nTicks>>

InitSetups ==
    /\ InitStore(SetupEntries)
    /\ fetcher \in FetcherSetups
    /\ _cacheDuration = JSNull
    /\ calls = <<>>

NextSetups ==
    \/ \E params \in ParamLists : Len(calls) < MaxCalls /\ Fetcher_get(params)
    \/ \E params \in ParamLists : Len(calls) < MaxCalls /\ Fetcher_refresh(params)
    \/ Settle(FetchData)
    \/ \E i \in DOMAIN calls : SaveThrows(i)

SpecSetups == InitSetups /\ [][NextSetups]_vars

(***************************************************************************)
(* Properties of SimpleCache, checked under SpecCache.                     *)
(***************************************************************************)
\* the last operation was a get(key), and LastWrite is the write it reads
LastIsGet == last.op = "get"
LastWrite == written[last.key]
\* what localStorage holds under the key of the last operation
LastEntry == storage[last.key]
\* the entry a get read carries an expiration timestamp
EntryHasTimestamp(raw) ==
    /\ raw.kind = "json"
    /\ HasOwnProperty(raw.v, "expires")
    /\ Prop(raw.v, "expires").t = "number"
\* a get made with no time elapsed since set(key, value, t) with t > 0
GetRightAfterSet ==
    /\ LastIsGet
    /\ LastWrite.op = "set"
    /\ LastWrite.at = last.at
    /\ LastWrite.minutes.t = "number"
    /\ LastWrite.minutes.n > 0

\* C3 as stated: for every key, every value v and every TTL t > 0, get(k)
\* right after set(k, v, t) returns v.
C3_RoundTripEveryValue ==
    GetRightAfterSet => (~last.threw /\ last.result = LastWrite.value)

\* C3, amended: for every key, every TTL t > 0 and every value v that has no
\* truthy `expires` property of its own, get(k) right after set(k, v, t)
\* returns v.
C3_RoundTrip ==
    (GetRightAfterSet /\ ~Truthy(Prop(LastWrite.value, "expires")))
        => (~last.threw /\ last.result = LastWrite.value)

C3_Witness ==
    /\ GetRightAfterSet
    /\ LastWrite.value = User42
    /\ last.result = User42

\* C4: get(key) on an entry that carries an expiration timestamp returns
\* absent (null) exactly when the time of the get is >= the timestamp, and
\* the entry's value otherwise; the value of an entry whose expiration has
\* passed is never returned.
C4_ExpirationOnRead ==
    (LastIsGet /\ EntryHasTimestamp(LastEntry)) =>
        /\ ~last.threw
        /\ last.result =
             IF last.at >= Prop(LastEntry.v, "expires").n
             THEN JSNull ELSE Prop(LastEntry.v, "value")

\* the boundary: an entry holding a user, read at exactly its expiration
C4_Witness ==
    /\ LastIsGet
    /\ EntryHasTimestamp(LastEntry)
    /\ Prop(LastEntry.v, "value") = User42
    /\ last.at = Prop(LastEntry.v, "expires").n
    /\ last.result = JSNull

\* C5 as stated: get(key) on a key with no entry, or with a text that does
\* not parse, returns absent (null) and raises no error.
C5_GetDegradesToAbsent ==
    (LastIsGet /\ LastEntry.kind \in {"missing", "garbage"})
        => (~last.threw /\ last.result = JSNull)

\* C6: after forever(k, v), every later get(k) returns v whatever time has
\* passed, as long as k was not rewritten or forgotten in between.
C6_ForeverNeverExpires ==
    (LastIsGet /\ LastWrite.op = "forever")
        => (~last.threw /\ last.result = LastWrite.value)

C6_Witness ==
    /\ LastIsGet
    /\ LastWrite.op = "forever"
    /\ LastWrite.value = User42
    /\ last.at >= LastWrite.at + LargeJump
    /\ last.result = User42

\* C7: forget(k) raises no error whether or not k has an entry, and a get(k)
\* after it, with no write to k in between, returns absent (null).
C7_ForgetThenGet ==
    /\ (last.op = "forget" => ~last.threw)
    /\ (LastIsGet /\ LastWrite.op = "forget") => (~last.threw /\ last.result = JSNull)

\* forget of a key that held a live entry, then get
C7_Witness ==
    /\ LastIsGet
    /\ LastWrite.op = "forget"
    /\ LastWrite.had = "json"
    /\ last.result = JSNull

\* C12 as stated: set(key, value) with no cacheMinutes, on a cache made with
\* a default of D minutes, leaves an entry that expires at exactly
\* now + D * 60000 ms (value being no entry with an expiration of its own).
C12_DefaultExpiration ==
    (/\ last.op = "set"
     /\ last.minutes = JSNull
     /\ ~Truthy(Prop(last.value, "expires"))) =>
        /\ LastEntry.kind = "json"
        /\ Prop(LastEntry.v, "expires")
             = Num(last.at + ToNumber(defaultCacheMinutes) * MsPerMinute)

\* the minutes the last set() was to use: those it was given, or the default
LastMinutes ==
    IF last.minutes = JSNull
    THEN DefaultFactor * ToNumber(defaultCacheMinutes)
    ELSE ToNumber(last.minutes)

\* the entry set() makes of the value and the minutes of the last set()
LastWrapped ==
    JSONStringify(Obj([expires |-> Num(last.at + MsPerMinute * LastMinutes),
                       value |-> last.value]))

\* C19 as stated: set(key, value, ttl) of a value that has an `expires`
\* property stores the value as it is, whatever ttl and the default are.
C19_PassThroughAnyExpires ==
    (last.op = "set" /\ HasOwnProperty(last.value, "expires"))
        => LastEntry = JSONStringify(last.value)

\* C19, amended: set(key, value, ttl) of a value whose `expires` property is
\* truthy stores the value as it is, whatever ttl and the default are; a value
\* whose `expires` is falsy (0, null) is wrapped like a value without one,
\* with the expiration set() computes.
C19_PassThrough ==
    last.op = "set" =>
        LastEntry = IF Truthy(Prop(last.value, "expires"))
                    THEN JSONStringify(last.value)
                    ELSE LastWrapped

\* a value with an expiration of its own, set with one minute: stored as it is
C19_Witness ==
    /\ last.op = "set"
    /\ last.minutes = Num(1)
    /\ last.value = Wrapped(Num(StartTime + LargeJump))
    /\ LastEntry = Json(Wrapped(Num(StartTime + LargeJump)))

(***************************************************************************)
(* Properties of AngularOneDataFetcher.                                    *)
(***************************************************************************)
\* a store and a base key are configured
Configured == fetcher.hasCache /\ fetcher.key.t = "string"

\* the key a call reads and writes
CallKey(call) == _buildKey(fetcher.key, call.params)

\* an object, array or text with something in it; one with nothing in it
NonEmptyCollection(v) ==
    \/ v.t = "object" /\ DOMAIN v.o # {}
    \/ v.t = "array" /\ Len(v.items) > 0
    \/ v.t = "string" /\ v.s # ""
EmptyCollection(v) == v = EmptyObject \/ v = EmptyArray

\* C1 as stated: get() with a store and a base key configured and no entry
\* under the composite key invokes the fetching strategy exactly once, and
\* once that resolved with d and the call is through, the entry under the key
\* has value d and the promise is resolved with d.
C1_MissFetchesAndStores ==
    \A i \in DOMAIN calls :
        (calls[i].kind = "get" /\ Configured /\ calls[i].entry.kind = "missing") =>
            /\ calls[i].fetched = 1
            /\ calls[i].pc = "resolved" =>
                 /\ calls[i].result = calls[i].origin.value
                 /\ Prop(calls[i].wrote.v, "value") = calls[i].origin.value

C8_FailurePropagates ==
    \A i \in DOMAIN calls :
        calls[i].origin.state = "rejected" =>
            /\ calls[i].alerts = 1
            /\ calls[i].pc \in {"originRejected", "rejected"}
            /\ calls[i].pc = "rejected" => calls[i].result = calls[i].origin.value

C8_Witness ==
    \E i \in DOMAIN calls :
        /\ calls[i].kind = "get"
        /\ calls[i].origin = [state |-> "rejected", value |-> Str("network error")]
        /\ calls[i].pc = "rejected"
        /\ calls[i].result = Str("network error")
        /\ calls[i].alerts = 1

\* C10: get() on an unexpired entry holding {} or [] invokes the fetching
\* strategy, and resolves with the fetched data, not with the cached value.
C10_EmptyIsMiss ==
    \A i \in DOMAIN calls :
        (/\ calls[i].kind = "get"
         /\ Configured
         /\ calls[i].live
         /\ EmptyCollection(Prop(calls[i].entry.v, "value"))) =>
            /\ calls[i].fetched = 1
            /\ calls[i].pc = "resolved" =>
                 (calls[i].origin.state = "resolved"
                  /\ calls[i].result = calls[i].origin.value)

C10_Witness ==
    \E i \in DOMAIN calls :
        /\ calls[i].kind = "get"
        /\ calls[i].entry = Entry(StartTime + MsPerMinute, EmptyObject)
        /\ calls[i].live
        /\ calls[i].fetched = 1
        /\ calls[i].pc = "resolved"
        /\ calls[i].result = User7

\* C13: refresh() invokes the fetching strategy on every call, also when
\* the cache holds an unexpired non-empty entry under the call's key, and
\* when the strategy resolved with d it writes d over that entry and the
\* promise resolves with d.
C13_RefreshFetches ==
    \A i \in DOMAIN calls :
        calls[i].kind = "refresh" =>
            /\ calls[i].fetched = 1
            /\ calls[i].cached = JSUndefined
            /\ calls[i].pc = "resolved" =>
                 /\ calls[i].origin.state = "resolved"
                 /\ calls[i].result = calls[i].origin.value
                 /\ calls[i].wrote.kind = "json"
                 /\ Prop(calls[i].wrote.v, "value") = calls[i].origin.value

\* a refresh over the unexpired entry of user 42 that fetched user 7
C13_Witness ==
    \E i \in DOMAIN calls :
        /\ calls[i].kind = "refresh"
        /\ calls[i].entry = Entry(StartTime + MsPerMinute, User42)
        /\ calls[i].live
        /\ calls[i].pc = "resolved"
        /\ calls[i].result = User7
        /\ Prop(calls[i].wrote.v, "value") = User7
        /\ storage[CallKey(calls[i])] = calls[i].wrote

\* C14 as stated: a fetcher made without a CacheService or without a key
\* invokes the fetching strategy on every get(), as refresh() does, and
\* neither reads nor writes localStorage: no call is served from it and no
\* call stores its data (a get() that threw on reading a key never written,
\* as in C5, set aside).
C14_UncachedMode ==
    ~Configured =>
        \A i \in DOMAIN calls :
            calls[i].pc # "threw" =>
                /\ calls[i].fetched = 1
                /\ calls[i].wrote = Missing

\* C15 as stated: with a store and a key configured, once the fetching
\* strategy resolved with d and the success callback has run, the promise of
\* get() or refresh() is resolved with d, also when the write to localStorage
\* threw.
C15_WriteFailureIsolated ==
    \A i \in DOMAIN calls :
        (/\ Configured
         /\ calls[i].origin.state = "resolved"
         /\ calls[i].pc # "originResolved") =>
            /\ calls[i].pc = "resolved"
            /\ calls[i].result = calls[i].origin.value

(***************************************************************************)
(* The loader, checked under SpecOverlap.                                  *)
(***************************************************************************)
RECURSIVE Total(_, _)
\* the sum of a counter over the calls
Total(cs, counter) ==
    IF cs = <<>> THEN 0 ELSE Head(cs)[counter] + Total(Tail(cs), counter)

InFlight == \E i \in DOMAIN calls : calls[i].origin.state = "pending" /\ calls[i].fetched > 0

\* C9: with a loader configured, every call that invokes the fetching
\* strategy has shown the loader once by then and hides it exactly once when
\* the strategy settles, resolved or rejected; with no fetch in flight the
\* loader was hidden as often as it was shown.
C9_ShowHidePaired ==
    /\ \A i \in DOMAIN calls :
          /\ calls[i].shows = calls[i].fetched
          /\ calls[i].fetched \in {0, 1}
          /\ calls[i].hides =
               IF calls[i].origin.state = "pending" THEN 0 ELSE calls[i].fetched
    /\ ~InFlight => Total(calls, "hides") = Total(calls, "shows")

C9_Witness ==
    /\ fetcher.hasLoading
    /\ ~InFlight
    /\ \E i, j \in DOMAIN calls :
          /\ calls[i].origin.state = "resolved"
          /\ calls[j].origin.state = "rejected"
    /\ Total(calls, "shows") = 2
    /\ Total(calls, "hides") = 2

(***************************************************************************)
(* What the fetcher writes, checked under SpecOverride.                    *)
(***************************************************************************)
\* the step in which the success callback of call i runs
Saves(i) == calls[i].pc = "originResolved" /\ calls'[i].pc = "resolved"

\* m minutes in milliseconds
MinutesToMs(m) ==
    m.n * MsPerMinute
    + (IF "tenths" \in DOMAIN m THEN m.tenths * (MsPerMinute \div 10) ELSE 0)

\* what set(key, data) with no cacheMinutes leaves under the key now
WrittenByDefault(call) ==
    SimpleCache_set(storage, CallKey(call), call.data, JSNull,
                    defaultCacheMinutes, now)[CallKey(call)]

\* the entry a write of the call's data now is to leave, when the last
\* override set was neverExpire(), none, or cacheDuration(m) counted as the
\* given minutes
WrittenUnder(call, minutes) ==
    CASE last.op = "neverExpire" -> Json(Obj([value |-> call.data]))
      [] last.op = "cacheDuration" ->
           Entry(now + MinutesToMs(minutes), call.data)
      [] OTHER -> WrittenByDefault(call)

C16_KeysDistinct ==
    \A i, j \in DOMAIN calls :
        (calls[i].params = calls[j].params)
            <=> (CallKey(calls[i]) = CallKey(calls[j]))

\* two get() calls with the same key that both found no unexpired entry
BothMissed(i, j) ==
    /\ i # j
    /\ calls[i].kind = "get" /\ calls[j].kind = "get"
    /\ CallKey(calls[i]) = CallKey(calls[j])
    /\ ~calls[i].live /\ ~calls[j].live

\* the call resolved with the data of its own fetch, and stored it
DeliveredOwn(call) ==
    /\ call.origin.state = "resolved"
    /\ call.result = call.origin.value
    /\ call.wrote.kind = "json"
    /\ Prop(call.wrote.v, "value") = call.origin.value

\* C18 as stated: of two get() calls with the same key that both find a
\* miss, each invokes the fetching strategy; once both are through each is
\* resolved with the data of its own fetch and has stored it, and the key
\* holds what one of the calls on that key stored (the one that wrote last).
C18_NoSingleFlight ==
    \A i, j \in DOMAIN calls :
        BothMissed(i, j) =>
            /\ calls[i].fetched = 1
            /\ calls[j].fetched = 1
            /\ (calls[i].pc \in {"resolved", "threw"} /\ calls[j].pc \in {"resolved", "threw"}) =>
                 /\ DeliveredOwn(calls[i])
                 /\ DeliveredOwn(calls[j])
                 /\ \E k \in DOMAIN calls :
                       /\ CallKey(calls[k]) = CallKey(calls[i])
                       /\ storage[CallKey(calls[i])] = calls[k].wrote

(***************************************************************************)
(* What leaves localStorage alone, checked under Spec.                     *)
(***************************************************************************)
\* C17: a step changes localStorage only if it is the success callback of a
\* call that fetched.  So the read of the cache a get() starts with leaves
\* every key as it was, also when the entry it finds is expired, and a get()
\* served from the cache writes nothing: the entry keeps its expiration.
C17_ReadsLeaveStore ==
    [][storage' # storage =>
          \E i \in DOMAIN calls : Saves(i) /\ calls[i].fetched = 1]_vars

\* a get() served from the cache a millisecond before the entry expires, the
\* entry as it was
C17_Witness ==
    \E i \in DOMAIN calls :
        /\ calls[i].kind = "get"
        /\ calls[i].pc = "resolved"
        /\ calls[i].fetched = 0
        /\ calls[i].entry = Entry(StartTime + MsPerMinute, User42)
        /\ now = StartTime + MsPerMinute - 1
        /\ storage[CallKey(calls[i])] = calls[i].entry

\* C20: a call of get() or refresh() whose fetching strategy rejected stores
\* nothing, and no step it takes, the rejection included, changes
\* localStorage: every key keeps the entry it had, expired or not.
C20_FailedFetchLeavesCache ==
    /\ [](\A i \in DOMAIN calls :
            calls[i].origin.state = "rejected" =>
                /\ calls[i].wrote = Missing
                /\ calls[i].pc \in {"originRejected", "rejected"})
    /\ [][\A i \in DOMAIN calls :
            (calls'[i].origin.state = "rejected" /\ calls'[i] # calls[i])
                => storage' = storage]_vars

\* a get() that found an expired entry, failed to fetch and was rejected, the
\* expired entry still in place
C20_Witness ==
    \E i \in DOMAIN calls :
        /\ calls[i].kind = "get"
        /\ calls[i].entry = Entry(StartTime + MsPerMinute, User42)
        /\ ~calls[i].live
        /\ calls[i].pc = "rejected"
        /\ calls[i].wrote = Missing
        /\ storage[CallKey(calls[i])] = calls[i].entry

====
